---- MODULE Spec2Model ----
(***************************************************************************)
(* A model of Analysis/bound_mass.py: the proximity clusterer fast_clumps  *)
(* (the nr3 eclazz algorithm specialised to a euclidean distance test),    *)
(* the pairwise potential, and the bound_mass dispatcher with the          *)
(* sub-functions it reaches.                                               *)
(*                                                                         *)
(* Python arrays are 0-based; they are modelled as functions over 0..n-1   *)
(* so that labels, which are indices, keep the values they have in the     *)
(* source.  A position is a tuple <<x, y, z>> (pj[0] is pj[1] here).       *)
(* Coordinates and the threshold L are drawn from small integer ranges, on *)
(* which the floating point arithmetic of the source is exact.             *)
(***************************************************************************)
EXTENDS Integers, Sequences, FiniteSets, TLC

VARIABLES
    pos,      \* the positions, argument of fast_clumps and of bound_mass
    L,        \* fast_clumps: the distance threshold
    labels,   \* fast_clumps: the label list
    j,        \* fast_clumps: the outer loop index (and that of the final pass)
    k,        \* fast_clumps: the inner loop index
    vel,      \* bound_mass: the velocities
    m,        \* bound_mass: the masses, in units of 1/MassDen
    units,    \* bound_mass: the length, mass and time units
    method,   \* bound_mass: the name of the algorithm
    U,        \* _bm_kory: the potential it computes
    result,   \* bound_mass: <<M_bound, ind_bound>> once both are assigned, else <<>>
    stdout,   \* what has been printed
    calls,    \* the sub-functions entered so far, in order
    mask,     \* _potential: the mask argument, <<>> for None
    GM,       \* _bm_naor2: G times the mass of the largest clump
    pc        \* the position in the running function

cvars == <<L, labels, j, k>>

bvars == <<vel, m, units, method, U, result, stdout, calls>>

nvars == <<mask, GM>>

vars == <<pos, cvars, bvars, nvars, pc>>

(***************************************************************************)
(* Bounds of the model.                                                    *)
(***************************************************************************)
MaxN == 4
MaxX == 2
MaxL == 2
MaxNB == 2
MaxNP == 3
MassDen == 2

(***************************************************************************)
(* The particles of a cloud lie on the x axis of the 3-d space.            *)
(***************************************************************************)
Points == {<<x, 0, 0>> : x \in 0..MaxX}

Clouds == UNION {[0..(n-1) -> Points] : n \in 0..MaxN}

len(a) == Cardinality(DOMAIN a)

(***************************************************************************)
(* Python list indexing: a negative index counts from the end of the list. *)
(***************************************************************************)
PyGet(a, i) == IF i < 0 THEN a[i + len(a)] ELSE a[i]

PySet(a, i, v) == IF i < 0 THEN [a EXCEPT ![i + len(a)] = v] ELSE [a EXCEPT ![i] = v]

(***************************************************************************)
(* fast_clumps, line 238: L2 = L**2.                                       *)
(***************************************************************************)
L2of(l) == l * l

(***************************************************************************)
(* fast_clumps, line 248: the proximity test of particles pj and pk.       *)
(***************************************************************************)
Dist2(pj, pk) == (pj[1] - pk[1]) * (pj[1] - pk[1])
               + (pj[2] - pk[2]) * (pj[2] - pk[2])
               + (pj[3] - pk[3]) * (pj[3] - pk[3])

Near_OrEqual(pj, pk, l2) == Dist2(pj, pk) <= l2

Near(pj, pk, l2) == Dist2(pj, pk) < l2

(***************************************************************************)
(* fast_clumps, lines 246-250: the body of the inner loop for the pair     *)
(* (j, k): one resolution step of labels[k], then the redirection of the   *)
(* entry two label steps above k to j when the particles are near.         *)
(***************************************************************************)
InnerBody_RedirectEntry(lab, p, l2, jj, kk) ==
    LET l1 == PySet(lab, kk, PyGet(lab, PyGet(lab, kk)))
    IN  IF Near(p[jj], p[kk], l2)
        THEN PySet(l1, kk, jj)
        ELSE l1

InnerBody_NoResolve(lab, p, l2, jj, kk) ==
    IF Near(p[jj], p[kk], l2)
    THEN PySet(lab, PyGet(lab, PyGet(lab, kk)), jj)
    ELSE lab

InnerBody(lab, p, l2, jj, kk) ==
    LET l1 == PySet(lab, kk, PyGet(lab, PyGet(lab, kk)))
    IN  IF Near(p[jj], p[kk], l2)
        THEN PySet(l1, PyGet(l1, PyGet(l1, kk)), jj)
        ELSE l1

(***************************************************************************)
(* fast_clumps, line 254: the body of the final resolution pass.           *)
(***************************************************************************)
FinalBody_Skip(lab, jj) == lab

FinalBody(lab, jj) == PySet(lab, jj, PyGet(lab, PyGet(lab, jj)))

(***************************************************************************)
(* fast_clumps as a function of its arguments: the loops of lines 242-255  *)
(* folded over the bodies above.  An empty cloud fails at line 241.        *)
(***************************************************************************)
RECURSIVE InnerLoop(_, _, _, _, _)
InnerLoop(lab, p, l2, jj, kk) ==
    IF kk >= jj THEN lab
    ELSE InnerLoop(InnerBody(lab, p, l2, jj, kk), p, l2, jj, kk + 1)

RECURSIVE OuterLoop(_, _, _, _)
OuterLoop(lab, p, l2, jj) ==
    IF jj >= len(p) THEN lab
    ELSE OuterLoop(InnerLoop([lab EXCEPT ![jj] = jj], p, l2, jj, 0), p, l2, jj + 1)

RECURSIVE FinalLoop(_, _)
FinalLoop(lab, jj) ==
    IF jj >= len(lab) THEN lab
    ELSE FinalLoop(FinalBody(lab, jj), jj + 1)

fast_clumps(p, l) ==
    IF len(p) = 0 THEN "IndexError"
    ELSE FinalLoop(OuterLoop([[i \in DOMAIN p |-> -1] EXCEPT ![0] = 0], p, L2of(l), 1), 0)

(***************************************************************************)
(* The run of fast_clumps, one loop iteration at a time.                   *)
(*   pc = "start"  before line 237                                         *)
(*   pc = "outer"  at the head of the loop of line 242                     *)
(*   pc = "inner"  at the head of the loop of line 245                     *)
(*   pc = "final"  at the head of the loop of line 253                     *)
(*   pc = "done"   labels returned (line 258)                              *)
(*   pc = "IndexError"  line 241 on an empty cloud                         *)
(***************************************************************************)
ClumpsInit ==
    /\ pos \in Clouds
    /\ L \in 0..MaxL
    /\ labels = <<>>
    /\ j = 0
    /\ k = 0
    /\ vel = <<>>
    /\ m = <<>>
    /\ units = <<>>
    /\ method = ""
    /\ U = <<>>
    /\ result = <<>>
    /\ stdout = <<>>
    /\ calls = <<>>
    /\ mask = <<>>
    /\ GM = <<>>
    /\ pc = "start"

Prepare ==
    /\ pc = "start"
    /\ len(pos) > 0
    /\ labels' = [[i \in DOMAIN pos |-> -1] EXCEPT ![0] = 0]
    /\ j' = 1
    /\ pc' = "outer"
    /\ UNCHANGED <<pos, L, k, bvars, nvars>>

PrepareEmpty ==
    /\ pc = "start"
    /\ len(pos) = 0
    /\ labels' = <<>>
    /\ pc' = "IndexError"
    /\ UNCHANGED <<pos, L, j, k, bvars, nvars>>

OuterBegin ==
    /\ pc = "outer"
    /\ j < len(pos)
    /\ labels' = [labels EXCEPT ![j] = j]
    /\ k' = 0
    /\ pc' = "inner"
    /\ UNCHANGED <<pos, L, j, bvars, nvars>>

InnerStep ==
    /\ pc = "inner"
    /\ k < j
    /\ labels' = InnerBody(labels, pos, L2of(L), j, k)
    /\ k' = k + 1
    /\ UNCHANGED <<pos, L, j, pc, bvars, nvars>>

InnerEnd ==
    /\ pc = "inner"
    /\ k >= j
    /\ j' = j + 1
    /\ pc' = "outer"
    /\ UNCHANGED <<pos, L, labels, k, bvars, nvars>>

OuterEnd ==
    /\ pc = "outer"
    /\ j >= len(pos)
    /\ j' = 0
    /\ pc' = "final"
    /\ UNCHANGED <<pos, L, labels, k, bvars, nvars>>

FinalStep ==
    /\ pc = "final"
    /\ j < len(pos)
    /\ labels' = FinalBody(labels, j)
    /\ j' = j + 1
    /\ UNCHANGED <<pos, L, k, pc, bvars, nvars>>

FinalEnd ==
    /\ pc = "final"
    /\ j >= len(pos)
    /\ pc' = "done"
    /\ UNCHANGED <<pos, L, labels, j, k, bvars, nvars>>

ClumpsNext ==
    \/ Prepare
    \/ PrepareEmpty
    \/ OuterBegin
    \/ InnerStep
    \/ InnerEnd
    \/ OuterEnd
    \/ FinalStep
    \/ FinalEnd

SpecClumps == ClumpsInit /\ [][ClumpsNext]_vars

(***************************************************************************)
(* The loops and the function agree on the returned labels.                *)
(***************************************************************************)
RunIsFunction == pc = "done" => labels = fast_clumps(pos, L)

(***************************************************************************)
(* _potential, lines 269-286.  The value of U[i] is a sum of terms         *)
(* -m/sqrt(d2); it is kept as the sequence of its terms [m, d2], in the    *)
(* order in which the code adds them.  A term with d2 = 0 is a division by *)
(* zero.                                                                   *)
(***************************************************************************)
PotBody_OneSided(Uacc, x, y, z, mm, jj, kk) ==
    LET dx == x[jj] - x[kk]
        dy == y[jj] - y[kk]
        dz == z[jj] - z[kk]
        d2 == dx * dx + dy * dy + dz * dz
    IN  [Uacc EXCEPT ![jj] = Append(@, [m |-> mm[kk], d2 |-> d2])]

PotBody(Uacc, x, y, z, mm, jj, kk) ==
    LET dx == x[jj] - x[kk]
        dy == y[jj] - y[kk]
        dz == z[jj] - z[kk]
        d2 == dx * dx + dy * dy + dz * dz
        U1 == [Uacc EXCEPT ![jj] = Append(@, [m |-> mm[kk], d2 |-> d2])]
    IN  [U1 EXCEPT ![kk] = Append(@, [m |-> mm[jj], d2 |-> d2])]

RECURSIVE PotInner(_, _, _, _, _, _, _)
PotInner(Uacc, x, y, z, mm, jj, kk) ==
    IF kk >= jj THEN Uacc
    ELSE PotInner(PotBody(Uacc, x, y, z, mm, jj, kk), x, y, z, mm, jj, kk + 1)

RECURSIVE PotOuter(_, _, _, _, _, _, _)
PotOuter(Uacc, x, y, z, mm, msk, jj) ==
    IF jj >= len(x) THEN Uacc
    ELSE PotOuter(IF msk[jj] THEN PotInner(Uacc, x, y, z, mm, jj, 0) ELSE Uacc,
                  x, y, z, mm, msk, jj + 1)

potential(x, y, z, mm, msk) ==
    PotOuter([i \in DOMAIN x |-> <<>>], x, y, z, mm, msk, 0)

NoMask(x) == [i \in DOMAIN x |-> TRUE]

Column(p, c) == [i \in DOMAIN p |-> p[i][c]]

(***************************************************************************)
(* bound_mass, line 95: bigG, as the factor that multiplies 6.67384e-11.   *)
(***************************************************************************)
BigG(u) == [num |-> u[2] * u[3] * u[3], den |-> u[1] * u[1] * u[1]]

(***************************************************************************)
(* _bm_kory, lines 116-120: the potential is computed and dropped, and the *)
(* result is the literal (1, [True, False, False]).  Masses are counted in *)
(* units of 1/MassDen, so the mass 1 is MassDen of them.                   *)
(***************************************************************************)
bm_kory_U(p, mm, bigG) ==
    [G |-> bigG,
     sum |-> potential(Column(p, 1), Column(p, 2), Column(p, 3), mm, NoMask(p))]

bm_kory(p, v, mm, bigG) == <<1 * MassDen, (0 :> TRUE @@ 1 :> FALSE @@ 2 :> FALSE)>>

(***************************************************************************)
(* bound_mass, lines 89-92: the assertions on the arguments.  The shape    *)
(* assertions of lines 87-90 (two-dimensional, three columns, real) hold   *)
(* of every input of the model.                                            *)
(***************************************************************************)
Methods == {"kory", "jutzi", "naor1", "naor2"}

AssertMass(mm) == \A i \in DOMAIN mm : mm[i] > 0

AssertUnits(u) == len(u) = 3 /\ \A i \in DOMAIN u : u[i] > 0

AssertLengths(p, v, mm) == len(p) = len(v) /\ len(v) = len(mm)

AssertMethod_Any(meth) == TRUE

AssertMethod(meth) == meth \in Methods

Asserted(p, v, mm, u, meth) ==
    /\ AssertMass(mm)
    /\ AssertUnits(u)
    /\ AssertLengths(p, v, mm)
    /\ AssertMethod(meth)

(***************************************************************************)
(* The inputs of bound_mass: arrays of 1..MaxNB rows each, of lengths      *)
(* chosen independently; velocities at rest and of 10^6 along x; masses 0, *)
(* 1/MassDen, 2/MassDen; unit triples with and without a zero; the four    *)
(* method names and one that is none of them.                              *)
(***************************************************************************)
BPoints == {<<0, 0, 0>>, <<1, 0, 0>>}

Velocities == {<<0, 0, 0>>, <<1000000, 0, 0>>}

MassNums == {0, 1, 2}

UnitTriples == {<<1, 1, 1>>, <<2, 1, 3>>, <<0, 1, 1>>, <<1, 0, 1>>, <<1, 1, 0>>}

MethodNames == Methods \cup {"bogus"}

Arrays(S) == UNION {[0..(n-1) -> S] : n \in 1..MaxNB}

(***************************************************************************)
(* The run of bound_mass.                                                  *)
(*   pc = "bm_start"     before line 83                                    *)
(*   pc = "bm_dispatch"  at line 98, the assertions passed                 *)
(*   pc = "bm_return"    at line 114                                       *)
(*   pc = "bm_done"      (M_bound, ind_bound) returned                     *)
(*   pc = "AssertionError", "NameError", "UnboundLocalError": the          *)
(*        exception that ended the call                                    *)
(* The else branch of line 111 is not an action: line 92 lets no other     *)
(* method name through.                                                    *)
(***************************************************************************)
BoundInit ==
    /\ pos \in Arrays(BPoints)
    /\ vel \in Arrays(Velocities)
    /\ m \in Arrays(MassNums)
    /\ units \in UnitTriples
    /\ method \in MethodNames
    /\ U = <<>>
    /\ result = <<>>
    /\ stdout = <<>>
    /\ calls = <<>>
    /\ L = 0
    /\ labels = <<>>
    /\ j = 0
    /\ k = 0
    /\ mask = <<>>
    /\ GM = <<>>
    /\ pc = "bm_start"

AssertPass ==
    /\ pc = "bm_start"
    /\ Asserted(pos, vel, m, units, method)
    /\ pc' = "bm_dispatch"
    /\ UNCHANGED <<pos, cvars, bvars, nvars>>

AssertFail ==
    /\ pc = "bm_start"
    /\ ~Asserted(pos, vel, m, units, method)
    /\ pc' = "AssertionError"
    /\ UNCHANGED <<pos, cvars, bvars, nvars>>

DispatchKory ==
    /\ pc = "bm_dispatch"
    /\ method = "kory"
    /\ calls' = calls \o <<"_bm_kory", "_potential">>
    /\ U' = bm_kory_U(pos, m, BigG(units))
    /\ result' = bm_kory(pos, vel, m, BigG(units))
    /\ pc' = "bm_return"
    /\ UNCHANGED <<pos, cvars, vel, m, units, method, stdout, nvars>>

DispatchJutzi ==
    /\ pc = "bm_dispatch"
    /\ method = "jutzi"
    /\ pc' = "NameError"
    /\ UNCHANGED <<pos, cvars, bvars, nvars>>

DispatchNaor1 ==
    /\ pc = "bm_dispatch"
    /\ method = "naor1"
    /\ pc' = "NameError"
    /\ UNCHANGED <<pos, cvars, bvars, nvars>>

DispatchNaor2 ==
    /\ pc = "bm_dispatch"
    /\ method = "naor2"
    /\ stdout' = Append(stdout, method)
    /\ pc' = "bm_return"
    /\ UNCHANGED <<pos, cvars, vel, m, units, method, U, result, calls, nvars>>

Return ==
    /\ pc = "bm_return"
    /\ result # <<>>
    /\ pc' = "bm_done"
    /\ UNCHANGED <<pos, cvars, bvars, nvars>>

ReturnUnbound ==
    /\ pc = "bm_return"
    /\ result = <<>>
    /\ pc' = "UnboundLocalError"
    /\ UNCHANGED <<pos, cvars, bvars, nvars>>

BoundNext ==
    \/ AssertPass
    \/ AssertFail
    \/ DispatchKory
    \/ DispatchJutzi
    \/ DispatchNaor1
    \/ DispatchNaor2
    \/ Return
    \/ ReturnUnbound

SpecBound == BoundInit /\ [][BoundNext]_vars

(***************************************************************************)
(* The run of _potential(x, y, z, m, mask), one loop iteration at a time;  *)
(* x, y and z are the columns of pos.                                      *)
(*   pc = "pot_start"  before line 270                                     *)
(*   pc = "pot_outer"  at the head of the loop of line 273                 *)
(*   pc = "pot_inner"  at the head of the loop of line 275                 *)
(*   pc = "pot_done"   U returned (line 286)                               *)
(* Lines 270-271: without a mask every particle is masked in.              *)
(***************************************************************************)
MaskOrAll(x, msk) == IF msk = <<>> THEN NoMask(x) ELSE msk

PMasses == {1, 2}

PotInit ==
    /\ \E n \in 1..MaxNP :
          /\ pos \in [0..(n-1) -> Points]
          /\ m \in [0..(n-1) -> PMasses]
          /\ mask \in {<<>>} \cup [0..(n-1) -> BOOLEAN]
    /\ U = <<>>
    /\ j = 0
    /\ k = 0
    /\ L = 0
    /\ labels = <<>>
    /\ vel = <<>>
    /\ units = <<>>
    /\ method = ""
    /\ result = <<>>
    /\ stdout = <<>>
    /\ calls = <<>>
    /\ GM = <<>>
    /\ pc = "pot_start"

PotStart ==
    /\ pc = "pot_start"
    /\ U' = [i \in DOMAIN pos |-> <<>>]
    /\ j' = 0
    /\ pc' = "pot_outer"
    /\ UNCHANGED <<pos, L, labels, k, vel, m, units, method, result, stdout, calls, nvars>>

PotOuterMasked ==
    /\ pc = "pot_outer"
    /\ j < len(pos)
    /\ MaskOrAll(pos, mask)[j]
    /\ k' = 0
    /\ pc' = "pot_inner"
    /\ UNCHANGED <<pos, L, labels, j, bvars, nvars>>

PotOuterSkip ==
    /\ pc = "pot_outer"
    /\ j < len(pos)
    /\ ~MaskOrAll(pos, mask)[j]
    /\ j' = j + 1
    /\ UNCHANGED <<pos, L, labels, k, bvars, nvars, pc>>

PotInnerStep ==
    /\ pc = "pot_inner"
    /\ k < j
    /\ U' = PotBody(U, Column(pos, 1), Column(pos, 2), Column(pos, 3), m, j, k)
    /\ k' = k + 1
    /\ UNCHANGED <<pos, L, labels, j, vel, m, units, method, result, stdout, calls, nvars, pc>>

PotInnerEnd ==
    /\ pc = "pot_inner"
    /\ k >= j
    /\ j' = j + 1
    /\ pc' = "pot_outer"
    /\ UNCHANGED <<pos, L, labels, k, bvars, nvars>>

PotReturn ==
    /\ pc = "pot_outer"
    /\ j >= len(pos)
    /\ pc' = "pot_done"
    /\ UNCHANGED <<pos, cvars, bvars, nvars>>

PotNext ==
    \/ PotStart
    \/ PotOuterMasked
    \/ PotOuterSkip
    \/ PotInnerStep
    \/ PotInnerEnd
    \/ PotReturn

SpecPotential == PotInit /\ [][PotNext]_vars

(***************************************************************************)
(* The loops and the function agree on the returned potential.             *)
(***************************************************************************)
PotRunIsFunction ==
    pc = "pot_done" =>
        U = potential(Column(pos, 1), Column(pos, 2), Column(pos, 3), m,
                      MaskOrAll(pos, mask))

(***************************************************************************)
(* _bm_naor2, lines 173-175: the label of the clump of greatest mass.      *)
(* np.unique sorts the labels and np.argmax takes the first maximum, so of *)
(* clumps of equal mass the one with the smallest label is taken.          *)
(***************************************************************************)
RECURSIVE PySum(_, _)
PySum(f, S) ==
    IF S = {} THEN 0
    ELSE LET i == CHOOSE x \in S : TRUE IN f[i] + PySum(f, S \ {i})

Unique(lab) == {lab[i] : i \in DOMAIN lab}

ClumpMass(lab, mm, c) == PySum(mm, {i \in DOMAIN lab : lab[i] = c})

MajorLabel_Least(lab, mm) ==
    CHOOSE c \in Unique(lab) :
        \A d \in Unique(lab) :
            \/ ClumpMass(lab, mm, c) < ClumpMass(lab, mm, d)
            \/ ClumpMass(lab, mm, c) = ClumpMass(lab, mm, d) /\ c <= d

MajorLabel(lab, mm) ==
    CHOOSE c \in Unique(lab) :
        \A d \in Unique(lab) :
            \/ ClumpMass(lab, mm, c) > ClumpMass(lab, mm, d)
            \/ ClumpMass(lab, mm, c) = ClumpMass(lab, mm, d) /\ c <= d

(***************************************************************************)
(* _bm_naor2, lines 195-197: U = -GM/sqrt(pos[k].pos[k]), K =              *)
(* vel[k].vel[k], and the test U + K < 0.  At the origin the division by   *)
(* zero gives U = -inf and the test holds.  Elsewhere U < 0 (GM > 0), so   *)
(* the test holds when K = 0; when K # 0 both K and the distance are at    *)
(* least 1 in the model while GM, of the order of 6.67384e-11, is below 1, *)
(* so the sum is positive.                                                 *)
(***************************************************************************)
Dot(a, b) == a[1] * b[1] + a[2] * b[2] + a[3] * b[3]

NaorEnergyNegative(gm, p, v) ==
    \/ Dot(p, p) = 0
    \/ Dot(v, v) = 0

(***************************************************************************)
(* _bm_naor2, lines 193-200: the body of the loop for particle kk, on the  *)
(* pair <<M_bound, ind_bound>>.                                            *)
(***************************************************************************)
NaorBody(res, gm, p, v, mm, kk) ==
    IF res[2][kk] THEN res
    ELSE IF NaorEnergyNegative(gm, p[kk], v[kk])
         THEN <<res[1] + mm[kk], [res[2] EXCEPT ![kk] = TRUE]>>
         ELSE res

(***************************************************************************)
(* The run of _bm_naor2(pos, vel, m, length_scale, units), called          *)
(* directly; L is length_scale.                                            *)
(*   pc = "naor_start"  before line 157                                    *)
(*   pc = "naor_clump"  at line 171, the assertions passed                 *)
(*   pc = "naor_loop"   at the head of the loop of line 192                *)
(*   pc = "naor_done"   (M_bound, ind_bound) returned (line 204)           *)
(*   pc = "AssertionError"  an assertion of lines 161-166 failed           *)
(* R_com and V_com (lines 183-184) are computed and never used.            *)
(***************************************************************************)
NPoints == {<<0, 0, 0>>, <<1, 0, 0>>}

NVelocities == {<<0, 0, 0>>, <<1, 0, 0>>}

NUnits == {<<2, 1, 3>>, <<1, 0, 1>>}

NaorAsserted(p, v, mm, l, u) ==
    /\ AssertMass(mm)
    /\ l > 0
    /\ AssertUnits(u)
    /\ AssertLengths(p, v, mm)

NaorInit ==
    /\ \E n \in 1..MaxNP :
          /\ pos \in [0..(n-1) -> NPoints]
          /\ vel \in [0..(n-1) -> NVelocities]
          /\ m \in [0..(n-1) -> PMasses]
    /\ L \in 0..MaxL
    /\ units \in NUnits
    /\ labels = <<>>
    /\ j = 0
    /\ k = 0
    /\ method = ""
    /\ U = <<>>
    /\ result = <<>>
    /\ stdout = <<>>
    /\ calls = <<>>
    /\ mask = <<>>
    /\ GM = <<>>
    /\ pc = "naor_start"

NaorAssertPass ==
    /\ pc = "naor_start"
    /\ NaorAsserted(pos, vel, m, L, units)
    /\ pc' = "naor_clump"
    /\ UNCHANGED <<pos, cvars, bvars, nvars>>

NaorAssertFail ==
    /\ pc = "naor_start"
    /\ ~NaorAsserted(pos, vel, m, L, units)
    /\ pc' = "AssertionError"
    /\ UNCHANGED <<pos, cvars, bvars, nvars>>

NaorClump ==
    /\ pc = "naor_clump"
    /\ calls' = Append(calls, "fast_clumps")
    /\ labels' = fast_clumps(pos, L)
    /\ LET cmask == [i \in DOMAIN pos |-> labels'[i] = MajorLabel(labels', m)]
           M_bound == PySum(m, {i \in DOMAIN pos : cmask[i]})
       IN  /\ result' = <<M_bound, cmask>>
           /\ GM' = [G |-> BigG(units), M |-> M_bound]
    /\ k' = 0
    /\ pc' = "naor_loop"
    /\ UNCHANGED <<pos, L, j, vel, m, units, method, U, stdout, mask>>

NaorStep ==
    /\ pc = "naor_loop"
    /\ k < len(pos)
    /\ result' = NaorBody(result, GM, pos, vel, m, k)
    /\ k' = k + 1
    /\ UNCHANGED <<pos, L, labels, j, vel, m, units, method, U, stdout, calls, nvars, pc>>

NaorReturn ==
    /\ pc = "naor_loop"
    /\ k >= len(pos)
    /\ pc' = "naor_done"
    /\ UNCHANGED <<pos, cvars, bvars, nvars>>

NaorNext ==
    \/ NaorAssertPass
    \/ NaorAssertFail
    \/ NaorClump
    \/ NaorStep
    \/ NaorReturn

SpecNaor2 == NaorInit /\ [][NaorNext]_vars

(***************************************************************************)
(* The distance graph of the claims, stated without the code's helpers:    *)
(* for L >= 0 the euclidean distance of p and q is below L iff its square  *)
(* is below the square of L.                                               *)
(***************************************************************************)
SqDist(p, q) == (p[1] - q[1]) * (p[1] - q[1])
              + (p[2] - q[2]) * (p[2] - q[2])
              + (p[3] - q[3]) * (p[3] - q[3])

Closer(a, b) == SqDist(pos[a], pos[b]) < L * L

RECURSIVE Grow(_)
Grow(S) ==
    LET T == S \cup {b \in DOMAIN pos : \E a \in S : Closer(a, b)}
    IN  IF T = S THEN S ELSE Grow(T)

Component(a) == Grow({a})

(***************************************************************************)
(* C1: the classes of the returned labels are exactly the connected        *)
(* components of the distance-below-L graph: labels[a] = labels[b] iff a   *)
(* and b are joined by a chain of particles, consecutive ones closer than  *)
(* L.                                                                      *)
(***************************************************************************)
C1_ClassesAreComponents ==
    pc = "done" =>
        \A a, b \in DOMAIN pos : (labels[a] = labels[b]) <=> (b \in Component(a))

C1_Witness ==
    /\ pc = "done"
    /\ \E a, b \in DOMAIN pos :
          /\ a # b
          /\ b \in Component(a)
          /\ ~Closer(a, b)
          /\ labels[a] = labels[b]

(***************************************************************************)
(* C2: the returned labeling is fully resolved: every label is an index of *)
(* the cloud and is its own label.                                         *)
(***************************************************************************)
C2_FullyResolved ==
    pc = "done" =>
        \A i \in DOMAIN pos :
            /\ 0 <= labels[i]
            /\ labels[i] < len(pos)
            /\ labels[labels[i]] = labels[i]

C2_Witness ==
    /\ pc = "done"
    /\ len(pos) >= 3
    /\ \E i \in DOMAIN pos : labels[i] # i /\ labels[labels[i]] = labels[i]

(***************************************************************************)
(* C8: with threshold 0 every particle is in a class of its own: the n     *)
(* labels are pairwise distinct.                                           *)
(***************************************************************************)
C8_ZeroThresholdSingletons ==
    (pc = "done" /\ L = 0) =>
        \A a, b \in DOMAIN pos : a # b => labels[a] # labels[b]

C8_Witness ==
    /\ pc = "done"
    /\ L = 0
    /\ len(pos) >= 3
    /\ \E a, b \in DOMAIN pos : a # b /\ pos[a] = pos[b] /\ labels[a] # labels[b]

(***************************************************************************)
(* C9: with a threshold above every pairwise distance of a non-empty cloud *)
(* there is one class: all labels are equal.                               *)
(***************************************************************************)
AboveAllDistances == \A a, b \in DOMAIN pos : SqDist(pos[a], pos[b]) < L * L

C9_LargeThresholdOneClass ==
    (pc = "done" /\ AboveAllDistances) =>
        \A a, b \in DOMAIN pos : labels[a] = labels[b]

C9_Witness ==
    /\ pc = "done"
    /\ AboveAllDistances
    /\ len(pos) >= 3
    /\ \E a, b \in DOMAIN pos : pos[a] # pos[b] /\ labels[a] = labels[b]

(***************************************************************************)
(* C10: the partition does not depend on the input order: for every        *)
(* permutation p, the particles p[a] and p[b] share a label in the run on  *)
(* pos iff a and b share a label in the run on the cloud permuted by p.    *)
(***************************************************************************)
Permuted(p) == [i \in DOMAIN pos |-> pos[p[i]]]

C10_PermutationInvariant ==
    pc = "done" =>
        \A p \in Permutations(DOMAIN pos) :
            LET lp == fast_clumps(Permuted(p), L)
            IN  \A a, b \in DOMAIN pos :
                    (labels[p[a]] = labels[p[b]]) <=> (lp[a] = lp[b])

C10_Witness ==
    /\ pc = "done"
    /\ \E p \in Permutations(DOMAIN pos) :
          LET lp == fast_clumps(Permuted(p), L)
          IN  /\ \E a \in DOMAIN pos : lp[a] # labels[p[a]]
              /\ \E a, b \in DOMAIN pos : a # b /\ lp[a] = lp[b]
              /\ \E a, b \in DOMAIN pos : lp[a] # lp[b]

(***************************************************************************)
(* The claims about bound_mass.                                            *)
(***************************************************************************)
RECURSIVE SumOver(_, _)
SumOver(f, S) ==
    IF S = {} THEN 0
    ELSE LET i == CHOOSE x \in S : TRUE IN f[i] + SumOver(f, S \ {i})

Ended == pc \in {"bm_done", "AssertionError", "NameError", "UnboundLocalError"}

ValidCall ==
    /\ len(pos) = len(vel)
    /\ len(vel) = len(m)
    /\ \A i \in DOMAIN m : m[i] > 0
    /\ \A i \in DOMAIN units : units[i] > 0
    /\ method \in {"kory", "jutzi", "naor1", "naor2"}

Implementation(meth) == "_bm_" \o meth

(***************************************************************************)
(* C3: for a valid cloud and each of the four method names, bound_mass     *)
(* enters that method's implementation and returns a (bound mass,          *)
(* membership) pair; the call never ends in an error or without a result.  *)
(***************************************************************************)
C3_EveryMethodReturns ==
    (ValidCall /\ Ended) =>
        /\ pc = "bm_done"
        /\ len(result) = 2
        /\ \E c \in DOMAIN calls : calls[c] = Implementation(method)

(***************************************************************************)
(* C4: a call whose arrays differ in length, or with a mass <= 0, a unit   *)
(* <= 0 or a method name that is none of the four, is rejected by an       *)
(* assertion before anything is computed: no sub-function is entered, no   *)
(* potential or result exists, nothing is printed; an unknown method is    *)
(* never dispatched.                                                       *)
(***************************************************************************)
C4_InvalidRejected ==
    ~ValidCall =>
        /\ pc \in {"bm_start", "AssertionError"}
        /\ calls = <<>>
        /\ U = <<>>
        /\ result = <<>>
        /\ stdout = <<>>

C4_Witness ==
    /\ pc = "AssertionError"
    /\ method = "bogus"
    /\ len(pos) = len(vel)
    /\ len(vel) = len(m)
    /\ \A i \in DOMAIN m : m[i] > 0
    /\ \A i \in DOMAIN units : units[i] > 0

(***************************************************************************)
(* C5: the returned bound mass is the sum of m[i] over the indices whose   *)
(* membership entry is true.                                               *)
(***************************************************************************)
Members == {i \in DOMAIN result[2] \cap DOMAIN m : result[2][i]}

C5_MassIsSumOfMembers ==
    pc = "bm_done" => result[1] = SumOver(m, Members)

(***************************************************************************)
(* C6: the returned bound mass is positive and at most the total mass of   *)
(* the cloud.                                                              *)
(***************************************************************************)
C6_MassWithinTotal ==
    pc = "bm_done" => (0 < result[1] /\ result[1] <= SumOver(m, DOMAIN m))

(***************************************************************************)
(* C7: the returned membership vector has one boolean entry per input      *)
(* particle: n entries for a cloud of n particles.                         *)
(***************************************************************************)
C7_MembershipLength ==
    pc = "bm_done" =>
        /\ DOMAIN result[2] = DOMAIN pos
        /\ \A i \in DOMAIN result[2] : result[2][i] \in BOOLEAN

(***************************************************************************)
(* The iterative variants of bound_mass.                                   *)
(***************************************************************************)
Iterative == {"jutzi", "naor1"}

(***************************************************************************)
(* C11: jutzi and naor1 terminate on every finite input: a valid call of   *)
(* either ends by returning its result (within the iteration cap), never   *)
(* otherwise.                                                              *)
(***************************************************************************)
C11_IterativeReturns ==
    (ValidCall /\ method \in Iterative /\ Ended) => pc = "bm_done"

(***************************************************************************)
(* C12: an iterative variant does not fail when it stops: it returns the   *)
(* candidate set (bound mass and membership) together with a               *)
(* non-convergence flag, a result of three components.                     *)
(***************************************************************************)
C12_ReturnsWithFlag ==
    (ValidCall /\ method \in Iterative /\ Ended) =>
        /\ pc \notin {"AssertionError", "NameError", "UnboundLocalError"}
        /\ len(result) = 3

(***************************************************************************)
(* C14: when two distinct particles of a potential evaluation coincide,    *)
(* the evaluation ends the call in a NumericalSingularity error and no     *)
(* potential with an infinite entry (a term of zero separation) exists.    *)
(***************************************************************************)
Coincident == \E a, b \in DOMAIN pos : a # b /\ pos[a] = pos[b]

PotentialCalled == \E c \in DOMAIN calls : calls[c] = "_potential"

HasInfinite(u) == \E i \in DOMAIN u : \E t \in DOMAIN u[i] : u[i][t].d2 = 0

C14_SingularityIsFatal ==
    (Coincident /\ PotentialCalled) =>
        /\ pc = "NumericalSingularity"
        /\ ~HasInfinite(U.sum)

(***************************************************************************)
(* C15: a call of bound_mass has no effect but its result: no step changes *)
(* the position, velocity, mass or unit arrays, and nothing is printed.    *)
(***************************************************************************)
C15_SideEffectFree ==
    [][ /\ pos' = pos
        /\ vel' = vel
        /\ m' = m
        /\ units' = units
        /\ stdout' = stdout ]_vars

(***************************************************************************)
(* The two-particle scenarios: masses of 1 each, 1 apart, units (1,1,1).   *)
(***************************************************************************)
TwoParticles ==
    /\ len(pos) = 2
    /\ len(vel) = 2
    /\ len(m) = 2
    /\ m[0] = MassDen
    /\ m[1] = MassDen
    /\ SqDist(pos[0], pos[1]) = 1
    /\ units = <<1, 1, 1>>

(***************************************************************************)
(* C16: for the two particles with zero relative velocity, each of kory,   *)
(* jutzi and naor1 returns a membership that marks both particles bound.   *)
(***************************************************************************)
C16_TwoAtRestBothBound ==
    (TwoParticles /\ vel[0] = vel[1] /\ method \in {"kory", "jutzi", "naor1"} /\ Ended) =>
        /\ pc = "bm_done"
        /\ result[2][0]
        /\ result[2][1]

(***************************************************************************)
(* C17: for the two particles with a relative velocity of 10^6, each of    *)
(* the four methods returns a membership that marks neither particle       *)
(* bound.                                                                  *)
(***************************************************************************)
C17_TwoEscapingNoneBound ==
    (TwoParticles /\ vel[0] # vel[1] /\ method \in {"kory", "jutzi", "naor1", "naor2"} /\ Ended) =>
        /\ pc = "bm_done"
        /\ ~result[2][0]
        /\ ~result[2][1]

(***************************************************************************)
(* The energy test of kory as the claim states it.  The lab-frame          *)
(* potential of particle a is minus the sum of m[b]/r over the other       *)
(* particles, minus infinity when one of them coincides with a; the other  *)
(* particles of these clouds are at distance 1.  The total energy of a in  *)
(* the rest frame of ref is negative when its potential is infinite, or    *)
(* when it is at rest relative to ref and has a non-zero potential; with a *)
(* relative velocity of 10^6 the kinetic term exceeds the potential term,  *)
(* which is of the order of G = 6.67384e-11.                               *)
(***************************************************************************)
PotInf(a) == \E b \in DOMAIN pos : b # a /\ pos[b] = pos[a]

PotMag(a) == SumOver([b \in DOMAIN pos |-> IF b = a \/ pos[b] = pos[a] THEN 0 ELSE m[b]],
                     DOMAIN pos)

PotLE(a, b) == PotInf(a) \/ (~PotInf(b) /\ PotMag(a) >= PotMag(b))

MinPot == {r \in DOMAIN pos : \A b \in DOMAIN pos : PotLE(r, b)}

EnergyNegative(a, ref) == PotInf(a) \/ (vel[a] = vel[ref] /\ PotMag(a) > 0)

(***************************************************************************)
(* C18: kory marks particle i bound iff its total energy, with the         *)
(* velocity taken relative to a particle of minimum potential, is          *)
(* negative.                                                               *)
(***************************************************************************)
C18_KoryEnergyTest ==
    (pc = "bm_done" /\ method = "kory") =>
        \E ref \in MinPot :
            \A i \in DOMAIN pos :
                (i \in DOMAIN result[2] /\ result[2][i]) <=> EnergyNegative(i, ref)

(***************************************************************************)
(* The potential as the claims state it: the contribution of particle b to *)
(* U[a] is the term -m[b]/|pos[a]-pos[b]|, and U[a] sums the terms of a    *)
(* set S of partners, each once.                                           *)
(***************************************************************************)
Term(a, b) == [m |-> m[b], d2 |-> SqDist(pos[a], pos[b])]

Count(s, t) == Cardinality({q \in DOMAIN s : s[q] = t})

SumsOver(a, S) ==
    /\ Len(U[a]) = Cardinality(S)
    /\ \A b \in S : Count(U[a], Term(a, b)) = Cardinality({c \in S : Term(a, c) = Term(a, b)})

(***************************************************************************)
(* C19: with a mask, a masked-out particle receives nothing (U stays 0)    *)
(* and a masked-in particle's U sums over the other masked-in particles    *)
(* only.                                                                   *)
(***************************************************************************)
C19_MaskRestrictsPairs ==
    (pc = "pot_done" /\ mask # <<>>) =>
        \A a \in DOMAIN pos :
            IF mask[a]
            THEN SumsOver(a, {b \in DOMAIN pos : b # a /\ mask[b]})
            ELSE U[a] = <<>>

(***************************************************************************)
(* C20: without a mask every unordered pair of distinct particles is       *)
(* visited exactly once and adds its term to both accumulators: at every   *)
(* point of the run U[a] sums over the partners of a in the pairs visited  *)
(* so far, and on return over all other particles.                         *)
(***************************************************************************)
VisitedPair(a, b) ==
    /\ b < a
    /\ \/ a < j
       \/ pc = "pot_inner" /\ a = j /\ b < k

Partners(a) == {b \in DOMAIN pos : VisitedPair(a, b) \/ VisitedPair(b, a)}

C20_EveryPairOnce ==
    (mask = <<>> /\ pc \in {"pot_outer", "pot_inner", "pot_done"}) =>
        \A a \in DOMAIN pos :
            /\ SumsOver(a, Partners(a))
            /\ pc = "pot_done" => Partners(a) = DOMAIN pos \ {a}

C20_Witness ==
    /\ pc = "pot_done"
    /\ mask = <<>>
    /\ \E a \in DOMAIN pos : Len(U[a]) >= 2 /\ U[a][1] # U[a][2]

(***************************************************************************)
(* C13: naor2 only adds to the largest geometric clump: once the clump is  *)
(* chosen, and on return, every particle of a clump of greatest total mass *)
(* is a member and the bound mass is at least that clump's mass.           *)
(***************************************************************************)
Greatest(a) ==
    \A b \in DOMAIN pos : SumOver(m, Component(a)) >= SumOver(m, Component(b))

C13_Naor2KeepsLargestClump ==
    pc \in {"naor_loop", "naor_done"} =>
        \E a \in DOMAIN pos :
            /\ Greatest(a)
            /\ Component(a) \subseteq Members
            /\ result[1] >= SumOver(m, Component(a))

C13_Witness ==
    /\ pc = "naor_done"
    /\ \E a \in DOMAIN pos :
          /\ Greatest(a)
          /\ Component(a) \subseteq Members
          /\ Component(a) # Members
          /\ Members # DOMAIN pos
          /\ result[1] > SumOver(m, Component(a))

(***************************************************************************)
(* The initial clump of a run of _bm_naor2, its total mass and the         *)
(* mass-weighted sum of its positions along one axis (its centre of mass   *)
(* times its mass).                                                        *)
(***************************************************************************)
InitialClump == {i \in DOMAIN pos : labels[i] = MajorLabel(labels, m)}

RECURSIVE Moment(_, _)
Moment(S, c) ==
    IF S = {} THEN 0
    ELSE LET i == CHOOSE x \in S : TRUE
         IN  m[i] * pos[i][c] + Moment(S \ {i}, c)

AtCom(a) ==
    \A c \in 1..3 :
        pos[a][c] * SumOver(m, InitialClump) = Moment(InitialClump, c)

(***************************************************************************)
(* Kinetic energy plus the potential of a point mass at the centre of mass *)
(* of the initial clump is negative: at the centre of mass itself, or at   *)
(* rest.  Elsewhere the distance is at least 1/mass of the clump and the   *)
(* squared speed at least 1, far above G times the mass.                   *)
(***************************************************************************)
ComEnergyNegative(a) ==
    \/ AtCom(a)
    \/ \A c \in 1..3 : vel[a][c] = 0

(***************************************************************************)
(* C21: when _bm_naor2 returns, a particle outside the initial clump is    *)
(* marked bound if and only if its kinetic energy plus the potential       *)
(* energy of the clump's point mass at the clump's centre of mass is       *)
(* negative.                                                               *)
(***************************************************************************)
C21_EnergyTestAtCom ==
    pc = "naor_done" =>
        \A a \in DOMAIN pos \ InitialClump :
            (a \in Members) <=> ComEnergyNegative(a)

(***************************************************************************)
(* C22: the set _bm_naor2 starts from is exactly one class of the          *)
(* fast_clumps labels computed with the given length scale, and no other   *)
(* class has a strictly larger total mass.                                 *)
(***************************************************************************)
ClassOf(c) == {i \in DOMAIN labels : labels[i] = c}

C22_InitialSetIsHeaviestClass ==
    (pc = "naor_loop" /\ k = 0) =>
        /\ labels = fast_clumps(pos, L)
        /\ \E a \in DOMAIN pos :
              /\ Members = ClassOf(labels[a])
              /\ \A b \in DOMAIN pos :
                    SumOver(m, ClassOf(labels[b])) <= SumOver(m, Members)

C22_Witness ==
    /\ pc = "naor_loop"
    /\ k = 0
    /\ \E a, b \in DOMAIN pos :
          /\ a \in Members
          /\ b \notin Members
          /\ labels[b] < labels[a]
          /\ SumOver(m, ClassOf(labels[b])) < SumOver(m, Members)

(***************************************************************************)
(* C23: a valid call with method jutzi runs the passes: it ends by         *)
(* returning a candidate set that started as the full cloud and only       *)
(* shrank, a membership over all particles whose members are among them.   *)
(***************************************************************************)
C23_JutziShrinksFromFullCloud ==
    (ValidCall /\ method = "jutzi" /\ Ended) =>
        /\ pc = "bm_done"
        /\ len(result) >= 2
        /\ DOMAIN result[2] = DOMAIN pos
        /\ Members \subseteq DOMAIN pos

(***************************************************************************)
(* C24: a valid call with method naor1 runs the passes: it ends by         *)
(* returning a candidate set that started as the single particle of lowest *)
(* potential and only grew, so that particle is a member.                  *)
(***************************************************************************)
C24_Naor1GrowsFromLowestPotential ==
    (ValidCall /\ method = "naor1" /\ Ended) =>
        /\ pc = "bm_done"
        /\ len(result) >= 2
        /\ DOMAIN result[2] = DOMAIN pos
        /\ Members # {}

(***************************************************************************)
(* The indices fast_clumps has inserted so far: at the head of the outer   *)
(* loop those below j, inside the inner loop j as well.                    *)
(***************************************************************************)
Inserted ==
    IF pc = "outer" THEN {a \in DOMAIN labels : a < j}
    ELSE IF pc = "inner" THEN {a \in DOMAIN labels : a <= j}
    ELSE {}

(***************************************************************************)
(* C25: throughout the insertion loop of fast_clumps no label points       *)
(* downward (labels[a] >= a for every inserted a), and at the start of     *)
(* each outer iteration every inserted index reaches its root in at most   *)
(* two label steps.                                                        *)
(***************************************************************************)
C25_ForestOfShortChains ==
    /\ \A a \in Inserted : labels[a] >= a
    /\ pc = "outer" =>
          \A a \in Inserted : labels[labels[labels[a]]] = labels[labels[a]]

C25_Witness ==
    /\ pc = "outer"
    /\ \E a \in Inserted :
          /\ labels[a] > a
          /\ labels[labels[a]] > labels[a]
          /\ labels[labels[labels[a]]] = labels[labels[a]]

(***************************************************************************)
(* C26: the label fast_clumps returns for a particle is the largest index  *)
(* in the particle's connected component.                                  *)
(***************************************************************************)
Largest(S) == CHOOSE a \in S : \A b \in S : b <= a

C26_RootIsLargestIndex ==
    pc = "done" => \A i \in DOMAIN pos : labels[i] = Largest(Component(i))

C26_Witness ==
    /\ pc = "done"
    /\ \E a, b \in DOMAIN pos :
          /\ a < b
          /\ b < labels[a]
          /\ Closer(a, b)
          /\ ~Closer(a, labels[a])

====
